---- MODULE Spec2Model ----
(***************************************************************************)
(* Model of cogs/reactionrole.py: the reaction_role attach command, the    *)
(* JSON configuration file written by save_config and read by load_config, *)
(* the views registered with bot.add_view, and the button callback that    *)
(* toggles a role.  Coroutines are cut at their awaits; everything between *)
(* two awaits runs as one step of the single-threaded event loop.          *)
(***************************************************************************)
EXTENDS Integers, Sequences, FiniteSets, TLC

(* ------------------------------ bounds --------------------------------- *)
MaxAttach == 2
MaxClicks == 2
MaxRestarts == 1

Procs == {1, 2}
Clicks == {1, 2}
Guilds == {7, 8}
Msgs == {3, 4}
RoleIds == {1, 2}
Users == {"u"}
None == "None"
BadLink == 0

\* the attach commands the operators issue: guild of the interaction, message the
\* link names, role, emoji and colour arguments
Attachments ==
    { [guild |-> 7, link |-> 3, role |-> 1, emoji |-> "dot", colour |-> None],
      [guild |-> 7, link |-> 3, role |-> 2, emoji |-> "star", colour |-> "red"],
      [guild |-> 7, link |-> 4, role |-> 1, emoji |-> "dot", colour |-> "danger"],
      [guild |-> 8, link |-> 3, role |-> 1, emoji |-> "star", colour |-> "purple"],
      [guild |-> 8, link |-> 4, role |-> 2, emoji |-> "dot", colour |-> "grey"],
      [guild |-> 7, link |-> BadLink, role |-> 1, emoji |-> "dot", colour |-> "red"] }

(* ----------------------- values of the library ------------------------- *)
\* discord.ButtonStyle members used here, by value
primary == 1
secondary == 2
success == 3
danger == 4
NoAttr == 0

\* str(int) and int(str) on the identifiers in use
Str(n) == ToString(n)
IntOf(s) == CHOOSE n \in 0..9 : ToString(n) = s

\* a JSON object: a sequence of [k, v] pairs in insertion order
Has(d, k) == \E i \in 1..Len(d) : d[i].k = k
Get(d, k) == d[CHOOSE i \in 1..Len(d) : d[i].k = k].v
Put(d, k, v) ==
    IF Has(d, k)
    THEN [i \in 1..Len(d) |-> IF d[i].k = k THEN [k |-> k, v |-> v] ELSE d[i]]
    ELSE Append(d, [k |-> k, v |-> v])

Range(s) == {s[i] : i \in 1..Len(s)}

(* ----------------------------- state ----------------------------------- *)
VARIABLES
    file,       \* CONFIG_FILE on disk
    views,      \* bot: message id -> the view last given to add_view
    dispatch,   \* bot: message id -> custom ids that have a registered button
    components, \* Discord: message id -> the buttons the message displays
    roles,      \* Discord: user -> the user's roles
    cog,        \* "ready", "down" (process stopped), "failed" (setup raised)
    pc,         \* per attach command: "idle", "fetched", "editing"
    cmd,        \* per attach command: its arguments and locals
    resp,       \* the last response an attach command sent
    cpc,        \* per click: "idle", "applying"
    clk,        \* per click: user, role, decision taken
    cresp,      \* the last response a click was sent
    attaches,   \* number of attach commands invoked
    quota,      \* number of attach commands the run allows
    clicks,     \* number of clicks handled
    restarts,   \* number of process stops
    added,      \* history: bindings whose attach answered "Reaction Role Added"
    persisted,  \* history: bindings in the order save_config wrote them
    unsaved,    \* history: bindings whose save_config raised
    issued,     \* history: triples of the attach commands invoked
    distinct,   \* history: no triple was issued twice
    allOk,      \* history: no external call failed and the process never stopped
    loaded,     \* history: what the last load_config found on disk
    restored,   \* history: the buttons the last load_config built
    window,     \* history: file before/after the save_config a stop interrupted
    roles0,     \* history: the roles at the start
    hist,       \* history: per user and role, the role changes that succeeded
    roleOk      \* history: no role change failed

vars == <<file, views, dispatch, components, roles, cog, pc, cmd, resp, cpc, clk,
          cresp, attaches, quota, clicks, restarts, added, persisted, unsaved, issued,
          distinct, allOk, loaded, restored, window, roles0, hist, roleOk>>

attachVars == <<pc, cmd, resp, attaches, quota, added, persisted, unsaved, issued,
                distinct>>
clickVars == <<cpc, clk, cresp, clicks, hist, roleOk, roles, roles0>>
loadVars == <<loaded, restored, window, restarts>>

NoFile == [state |-> "absent", config |-> <<>>]
Truncated == [state |-> "truncated", config |-> <<>>]
Json(c) == [state |-> "json", config |-> c]

NoCmd == [guild_id |-> 0, message_id |-> 0, role |-> 0, emoji |-> "", colour |-> "",
          components |-> <<>>, view |-> <<>>]
NoClick == [user |-> "", role |-> 0, decision |-> "", prev |-> "", alone |-> TRUE,
            tries |-> 0]
NoWindow == [open |-> FALSE, pre |-> NoFile, post |-> NoFile]

(* ------------------------ ReactionRoleButton --------------------------- *)
\* ReactionRoleButton.__init__: custom_id is str(role_id)
ReactionRoleButton(role_id, emoji, colour) ==
    [role_id |-> role_id, custom_id |-> Str(role_id), emoji |-> emoji, style |-> colour]

\* what Discord keeps of a button when a message is edited with a view
Component(item) == [custom_id |-> item.custom_id, emoji |-> item.emoji, style |-> item.style]

\* reaction_role: colour_map.get(colour, discord.ButtonStyle.grey)
colour_map(colour) ==
    CASE colour = "red" -> danger
      [] colour = "green" -> success
      [] colour = "blurple" -> primary
      [] colour = "grey" -> secondary
      [] OTHER -> secondary

\* load_config: getattr(discord.ButtonStyle, button["colour"]); NoAttr stands for
\* the AttributeError of a name the enumeration does not have
ButtonStyleAttr(name) ==
    CASE name = "red" -> danger
      [] name = "green" -> success
      [] name = "blurple" -> primary
      [] name = "grey" -> secondary
      [] name = "danger" -> danger
      [] OTHER -> NoAttr

\* reaction_role as it would be if the new button were put first
BuildViewPrepend(comps, button) ==
    <<button>> \o
    [i \in 1..Len(comps) |->
        ReactionRoleButton(IntOf(comps[i].custom_id), comps[i].emoji, comps[i].style)]

\* reaction_role as it would be without view.add_item(button)
BuildViewNoNew(comps, button) ==
    [i \in 1..Len(comps) |->
        ReactionRoleButton(IntOf(comps[i].custom_id), comps[i].emoji, comps[i].style)]

\* reaction_role: the view rebuilt from message.components plus the new button
BuildView(comps, button) ==
    [i \in 1..Len(comps) |->
        ReactionRoleButton(IntOf(comps[i].custom_id), comps[i].emoji, comps[i].style)]
    \o <<button>>

\* bot.add_view(view, message_id=...): the view becomes the message's view and
\* each of its buttons is registered under (message id, custom id)
AddViewViews(vs, message_id, view) == [vs EXCEPT ![message_id] = view]
AddViewDispatch(ds, message_id, view) ==
    [ds EXCEPT ![message_id] = @ \cup {view[i].custom_id : i \in 1..Len(view)}]

(* ----------------------------- save_config ----------------------------- *)
\* save_config as it would be if it assigned the message's list instead of
\* appending to it
SaveConfigOverwrite(f, guild_id, message_id, button) ==
    LET config0 == IF f.state = "absent" THEN <<>> ELSE f.config
        g == Str(guild_id)
        m == Str(message_id)
        config1 == IF ~Has(config0, g) THEN Put(config0, g, <<>>) ELSE config0
    IN  Put(config1, g, Put(Get(config1, g), m, <<button>>))

\* save_config as it would be if it started from an empty configuration
SaveConfigFresh(f, guild_id, message_id, button) ==
    Put(<<>>, Str(guild_id), Put(<<>>, Str(message_id), <<button>>))

\* the configuration save_config dumps, given the file it read
SaveConfig(f, guild_id, message_id, button) ==
    LET config0 == IF f.state = "absent" THEN <<>> ELSE f.config
        g == Str(guild_id)
        m == Str(message_id)
        config1 == IF ~Has(config0, g) THEN Put(config0, g, <<>>) ELSE config0
        msgs1 == Get(config1, g)
        msgs2 == IF ~Has(msgs1, m) THEN Put(msgs1, m, <<>>) ELSE msgs1
        msgs3 == Put(msgs2, m, Append(Get(msgs2, m), button))
    IN  Put(config1, g, msgs3)

(* ----------------------------- load_config ----------------------------- *)
\* the (message key, buttons) pairs in the order the two for-loops visit them
RECURSIVE Entries(_)
Entries(config) ==
    IF config = <<>> THEN <<>>
    ELSE Head(config).v \o Entries(Tail(config))

\* the buttons load_config builds for one message
LoadItems(buttons) ==
    [i \in 1..Len(buttons) |->
        ReactionRoleButton(buttons[i].role_id, buttons[i].emoji,
                           ButtonStyleAttr(buttons[i].colour))]

LoadRaises(buttons) ==
    \E i \in 1..Len(buttons) : ButtonStyleAttr(buttons[i].colour) = NoAttr

\* number of messages load_config registers before it raises (all, if it does not)
LoadCount(es) ==
    IF \E i \in 1..Len(es) : LoadRaises(es[i].v)
    THEN (CHOOSE i \in 1..Len(es) :
            /\ LoadRaises(es[i].v)
            /\ \A j \in 1..(i - 1) : ~LoadRaises(es[j].v)) - 1
    ELSE Len(es)

\* the views and registrations left after load_config went over n entries
RECURSIVE LoadViews(_, _, _)
LoadViews(es, n, vs) ==
    IF n = 0 THEN vs
    ELSE AddViewViews(LoadViews(es, n - 1, vs), IntOf(es[n].k), LoadItems(es[n].v))

RECURSIVE LoadDispatch(_, _, _)
LoadDispatch(es, n, ds) ==
    IF n = 0 THEN ds
    ELSE AddViewDispatch(LoadDispatch(es, n - 1, ds), IntOf(es[n].k), LoadItems(es[n].v))

LoadRestored(es, n) ==
    UNION {{[message_id |-> IntOf(es[i].k), item |-> x] : x \in Range(LoadItems(es[i].v))}
            : i \in 1..n}

NoViews == [m \in Msgs |-> <<>>]
NoDispatch == [m \in Msgs |-> {}]

(* ------------------------------- Init ---------------------------------- *)
\* the cog constructed by setup() with no configuration file on disk
Init ==
    /\ file = NoFile
    /\ views = NoViews
    /\ dispatch = NoDispatch
    /\ components = [m \in Msgs |-> <<>>]
    /\ roles \in [Users -> {{}, {1}}]
    /\ quota = MaxAttach
    /\ cog = "ready"
    /\ pc = [p \in Procs |-> "idle"]
    /\ cmd = [p \in Procs |-> NoCmd]
    /\ resp = "none"
    /\ cpc = [k \in Clicks |-> "idle"]
    /\ clk = [k \in Clicks |-> NoClick]
    /\ cresp = "none"
    /\ attaches = 0
    /\ clicks = 0
    /\ restarts = 0
    /\ added = {}
    /\ persisted = <<>>
    /\ unsaved = {}
    /\ issued = {}
    /\ distinct = TRUE
    /\ allOk = TRUE
    /\ loaded = NoFile
    /\ restored = {}
    /\ window = NoWindow
    /\ roles0 = roles
    /\ hist = [u \in Users |-> [r \in RoleIds |-> <<>>]]
    /\ roleOk = TRUE

\* the free coroutine slot a new command or click takes
Free(slots, p) == slots[p] = "idle" /\ \A q \in DOMAIN slots : q < p => slots[q] # "idle"

(* --------------------------- reaction_role ----------------------------- *)
\* reaction_role up to its first await: the link is parsed and the message fetched.
\* A link that does not parse, or a fetch that fails, ends in the except branch.
reaction_role(p) ==
    /\ cog = "ready"
    /\ Free(pc, p)
    /\ attaches < quota
    /\ attaches' = attaches + 1
    /\ \E a \in Attachments :
         \/ /\ a.link = BadLink
            /\ resp' = "error"
            /\ allOk' = FALSE
            /\ UNCHANGED <<pc, cmd, issued, distinct>>
         \/ /\ a.link # BadLink
            /\ issued' = issued \cup {<<a.guild, a.link, a.role>>}
            /\ distinct' = (distinct /\ <<a.guild, a.link, a.role>> \notin issued)
            /\ \/ /\ resp' = "error"
                  /\ allOk' = FALSE
                  /\ UNCHANGED <<pc, cmd>>
               \/ /\ pc' = [pc EXCEPT ![p] = "fetched"]
                  /\ cmd' = [cmd EXCEPT ![p] =
                        [guild_id |-> a.guild, message_id |-> a.link, role |-> a.role,
                         emoji |-> a.emoji, colour |-> a.colour,
                         components |-> components[a.link], view |-> <<>>]]
                  /\ UNCHANGED <<resp, allOk>>
    /\ UNCHANGED <<file, views, dispatch, components, cog, quota, added, persisted,
                   unsaved>>
    /\ UNCHANGED clickVars
    /\ UNCHANGED loadVars

\* the colours the command may end up with: random.choice when none was given
Colours(colour) ==
    IF colour = None THEN {"red", "green", "blurple", "grey"} ELSE {colour}

\* the JSON object save_config is given
ConfigButton(c, colour) == [role_id |-> c.role, emoji |-> c.emoji, colour |-> colour]

\* reaction_role between fetch_message and message.edit: the view is built and
\* registered, then save_config reads, extends and rewrites the file.
reaction_role_save(p) ==
    /\ cog = "ready"
    /\ pc[p] = "fetched"
    /\ \E colour \in Colours(cmd[p].colour) :
         LET c == cmd[p]
             button == ReactionRoleButton(c.role, c.emoji, colour_map(colour))
             view == BuildView(c.components, button)
             entry == ConfigButton(c, colour)
             failed == /\ pc' = [pc EXCEPT ![p] = "idle"]
                       /\ cmd' = [cmd EXCEPT ![p] = NoCmd]
                       /\ resp' = "error"
                       /\ allOk' = FALSE
                       /\ unsaved' = unsaved \cup
                             {[guild_id |-> c.guild_id, message_id |-> c.message_id,
                               button |-> entry]}
                       /\ UNCHANGED persisted
         IN  /\ views' = AddViewViews(views, c.message_id, view)
             /\ dispatch' = AddViewDispatch(dispatch, c.message_id, view)
             /\ \/ \* json.load raises on a file that is not JSON
                   /\ file.state = "truncated"
                   /\ UNCHANGED file
                   /\ failed
                \/ \* open() raises: the file stays as it was
                   /\ file.state # "truncated"
                   /\ UNCHANGED file
                   /\ failed
                \/ \* json.dump raises after open(.., "w") emptied the file
                   /\ file.state # "truncated"
                   /\ file' = Truncated
                   /\ failed
                \/ /\ file.state # "truncated"
                   /\ file' = Json(SaveConfig(file, c.guild_id, c.message_id, entry))
                   /\ persisted' = Append(persisted,
                         [guild_id |-> c.guild_id, message_id |-> c.message_id,
                          button |-> entry])
                   /\ pc' = [pc EXCEPT ![p] = "editing"]
                   /\ cmd' = [cmd EXCEPT ![p] = [c EXCEPT !.colour = colour, !.view = view]]
                   /\ UNCHANGED <<resp, allOk, unsaved>>
    /\ UNCHANGED <<components, cog, attaches, quota, added, issued, distinct>>
    /\ UNCHANGED clickVars
    /\ UNCHANGED loadVars

\* reaction_role after message.edit returned or raised
reaction_role_edit(p) ==
    /\ cog = "ready"
    /\ pc[p] = "editing"
    /\ pc' = [pc EXCEPT ![p] = "idle"]
    /\ cmd' = [cmd EXCEPT ![p] = NoCmd]
    /\ \/ /\ components' = [components EXCEPT ![cmd[p].message_id] =
                [i \in 1..Len(cmd[p].view) |-> Component(cmd[p].view[i])]]
          /\ resp' = "added"
          /\ added' = added \cup
                {[guild_id |-> cmd[p].guild_id, message_id |-> cmd[p].message_id,
                  button |-> ConfigButton(cmd[p], cmd[p].colour),
                  item |-> cmd[p].view[Len(cmd[p].view)]]}
          /\ UNCHANGED allOk
       \/ /\ resp' = "error"
          /\ allOk' = FALSE
          /\ UNCHANGED <<components, added>>
    /\ UNCHANGED <<file, views, dispatch, cog, attaches, quota, persisted, unsaved,
                   issued, distinct>>
    /\ UNCHANGED clickVars
    /\ UNCHANGED loadVars

(* ---------------------- ReactionRoleButton.callback -------------------- *)
\* callback as it would be if it never looked at the user's roles
DecideAlwaysGrant(role, user_roles) == "Grant"

\* the role change callback chooses: remove_roles if the user has the role
Decide(role, user_roles) == IF role \in user_roles THEN "Revoke" ELSE "Grant"

\* the user's roles once the role change has succeeded
Apply(decision, role, user_roles) ==
    IF decision = "Revoke" THEN user_roles \ {role} ELSE user_roles \cup {role}

\* callback as it would be if an except branch repeated the role change
AfterFailureRetry(decision, role, user_roles) ==
    IF decision = "Revoke" THEN user_roles \ {role} ELSE user_roles \cup {role}

\* the user's roles once an except branch has run: they only send an embed
AfterFailure(decision, role, user_roles) == user_roles

\* the add_roles / remove_roles calls one pass through the try block makes
RoleCalls == 1

LastDone(h) == IF h = <<>> THEN "none" ELSE h[Len(h)]

\* callback up to its await: a user clicks a displayed button that has a registered
\* handler; the handler compares the role with the roles the interaction carries
callback(k) ==
    /\ cog = "ready"
    /\ Free(cpc, k)
    /\ clicks < MaxClicks
    /\ clicks' = clicks + 1
    /\ \E u \in Users, m \in Msgs :
         \E i \in 1..Len(components[m]) :
            LET role == IntOf(components[m][i].custom_id) IN
            /\ components[m][i].custom_id \in dispatch[m]
            /\ clk' = [clk EXCEPT ![k] =
                  [user |-> u, role |-> role, decision |-> Decide(role, roles[u]),
                   prev |-> LastDone(hist[u][role]),
                   alone |-> \A j \in Clicks :
                                cpc[j] = "applying" =>
                                    (clk[j].user # u \/ clk[j].role # role),
                   tries |-> RoleCalls]]
    /\ cpc' = [cpc EXCEPT ![k] = "applying"]
    /\ UNCHANGED cresp
    /\ UNCHANGED <<file, views, dispatch, components, roles, roles0, cog, allOk, hist,
                   roleOk>>
    /\ UNCHANGED attachVars
    /\ UNCHANGED loadVars

\* callback after add_roles / remove_roles returned or raised
callback_done(k) ==
    /\ cog = "ready"
    /\ cpc[k] = "applying"
    /\ cpc' = [cpc EXCEPT ![k] = "idle"]
    /\ clk' = [clk EXCEPT ![k] = NoClick]
    /\ LET c == clk[k] IN
       \/ /\ roles' = [roles EXCEPT ![c.user] = Apply(c.decision, c.role, @)]
          /\ hist' = [hist EXCEPT ![c.user][c.role] = Append(@, c.decision)]
          /\ cresp' = IF c.decision = "Revoke" THEN "Role Removed" ELSE "Role Assigned"
          /\ UNCHANGED roleOk
       \/ \* discord.Forbidden
          /\ cresp' = "Permission Error"
          /\ roleOk' = FALSE
          /\ roles' = [roles EXCEPT ![c.user] = AfterFailure(c.decision, c.role, @)]
          /\ UNCHANGED hist
       \/ \* any other exception
          /\ cresp' = "Error"
          /\ roleOk' = FALSE
          /\ roles' = [roles EXCEPT ![c.user] = AfterFailure(c.decision, c.role, @)]
          /\ UNCHANGED hist
    /\ UNCHANGED <<file, views, dispatch, components, cog, allOk, clicks, roles0>>
    /\ UNCHANGED attachVars
    /\ UNCHANGED loadVars

(* ------------------------- process stop and start ---------------------- *)
\* what a stopped process loses: the bot's views and every coroutine in flight
Stopped ==
    /\ cog' = "down"
    /\ views' = NoViews
    /\ dispatch' = NoDispatch
    /\ pc' = [p \in Procs |-> "idle"]
    /\ cmd' = [p \in Procs |-> NoCmd]
    /\ cpc' = [k \in Clicks |-> "idle"]
    /\ clk' = [k \in Clicks |-> NoClick]
    /\ restarts' = restarts + 1
    /\ allOk' = FALSE
    /\ UNCHANGED <<components, roles, resp, cresp, attaches, quota, clicks, added, persisted,
                   unsaved, issued, distinct, loaded, restored, roles0, hist, roleOk>>

\* the process stops between two steps of the event loop
stop ==
    /\ cog # "down"
    /\ restarts < MaxRestarts
    /\ Stopped
    /\ UNCHANGED <<file, window>>

\* the process stops inside save_config, after open(CONFIG_FILE, "w") emptied the
\* file and before json.dump wrote all of it
stop_in_save(p) ==
    /\ cog = "ready"
    /\ restarts < MaxRestarts
    /\ pc[p] = "fetched"
    /\ file.state # "truncated"
    /\ \E colour \in Colours(cmd[p].colour) :
         window' = [open |-> TRUE, pre |-> file,
                    post |-> Json(SaveConfig(file, cmd[p].guild_id, cmd[p].message_id,
                                             ConfigButton(cmd[p], colour)))]
    /\ file' = Truncated
    /\ Stopped

\* setup(): ReactionRole.__init__ runs load_config; an exception leaves no cog
setup ==
    /\ cog = "down"
    /\ loaded' = file
    /\ \/ /\ file.state = "absent"
          /\ cog' = "ready"
          /\ UNCHANGED <<views, dispatch, restored>>
       \/ \* json.load raises
          /\ file.state = "truncated"
          /\ cog' = "failed"
          /\ restored' = {}
          /\ UNCHANGED <<views, dispatch>>
       \/ /\ file.state = "json"
          /\ LET es == Entries(file.config)
                 n == LoadCount(es)
             IN  /\ views' = LoadViews(es, n, views)
                 /\ dispatch' = LoadDispatch(es, n, dispatch)
                 /\ restored' = LoadRestored(es, n)
                 /\ cog' = IF n = Len(es) THEN "ready" ELSE "failed"
    /\ UNCHANGED <<file, components, allOk, window, restarts>>
    /\ UNCHANGED attachVars
    /\ UNCHANGED clickVars

(* --------------------------- specification ----------------------------- *)
Next ==
    \/ \E p \in Procs : reaction_role(p)
    \/ \E p \in Procs : reaction_role_save(p)
    \/ \E p \in Procs : reaction_role_edit(p)
    \/ stop
    \/ \E p \in Procs : stop_in_save(p)
    \/ setup

Spec == Init /\ [][Next]_vars

\* The program once two attach commands have put the buttons of roles 1 and 2 on
\* message 3 of guild 7 (a state Spec reaches), with users clicking them.
ClickInit ==
    LET b1 == [role_id |-> 1, emoji |-> "dot", colour |-> "green"]
        b2 == [role_id |-> 2, emoji |-> "star", colour |-> "red"]
        view == <<ReactionRoleButton(1, "dot", colour_map("green")),
                  ReactionRoleButton(2, "star", colour_map("red"))>>
    IN  /\ file = Json(SaveConfig(Json(SaveConfig(NoFile, 7, 3, b1)), 7, 3, b2))
        /\ views = AddViewViews(NoViews, 3, view)
        /\ dispatch = AddViewDispatch(NoDispatch, 3, view)
        /\ components = [m \in Msgs |->
                IF m = 3 THEN <<Component(view[1]), Component(view[2])>> ELSE <<>>]
        /\ roles \in [Users -> {{}, {1}}]
        /\ quota = 2
        /\ cog = "ready"
        /\ pc = [p \in Procs |-> "idle"]
        /\ cmd = [p \in Procs |-> NoCmd]
        /\ resp = "added"
        /\ cpc = [k \in Clicks |-> "idle"]
        /\ clk = [k \in Clicks |-> NoClick]
        /\ cresp = "none"
        /\ attaches = 2
        /\ clicks = 0
        /\ restarts = 0
        /\ added = {[guild_id |-> 7, message_id |-> 3, button |-> b1, item |-> view[1]],
                    [guild_id |-> 7, message_id |-> 3, button |-> b2, item |-> view[2]]}
        /\ persisted = <<[guild_id |-> 7, message_id |-> 3, button |-> b1],
                         [guild_id |-> 7, message_id |-> 3, button |-> b2]>>
        /\ unsaved = {}
        /\ issued = {<<7, 3, 1>>, <<7, 3, 2>>}
        /\ distinct = TRUE
        /\ allOk = TRUE
        /\ loaded = NoFile
        /\ restored = {}
        /\ window = NoWindow
        /\ roles0 = roles
        /\ hist = [u \in Users |-> [r \in RoleIds |-> <<>>]]
        /\ roleOk = TRUE

ClickNext ==
    \/ \E k \in Clicks : callback(k)
    \/ \E k \in Clicks : callback_done(k)
    \/ stop
    \/ setup

ClickSpec == ClickInit /\ [][ClickNext]_vars

(* ------------------------------ properties ----------------------------- *)
\* the bindings the file holds for one guild and message
Bindings(f, g, m) ==
    IF f.state = "json" /\ Has(f.config, Str(g)) /\ Has(Get(f.config, Str(g)), Str(m))
    THEN Get(Get(f.config, Str(g)), Str(m))
    ELSE <<>>

Present(f, g, m, r) == \E i \in 1..Len(Bindings(f, g, m)) : Bindings(f, g, m)[i].role_id = r

\* the role ids the file holds for one message, in the order load_config meets them
RECURSIVE FileRoles(_, _)
FileRoles(es, m) ==
    IF es = <<>> THEN <<>>
    ELSE (IF Head(es).k = Str(m)
          THEN [i \in 1..Len(Head(es).v) |-> Head(es).v[i].role_id]
          ELSE <<>>) \o FileRoles(Tail(es), m)

ViewRoles(view) == [i \in 1..Len(view) |-> view[i].role_id]
CustomIds(items) == {items[i].custom_id : i \in 1..Len(items)}

\* the saves of one guild and message, in the order they were made
RECURSIVE SavedFor(_, _, _)
SavedFor(h, g, m) ==
    IF h = <<>> THEN <<>>
    ELSE (IF Head(h).guild_id = g /\ Head(h).message_id = m THEN <<Head(h).button>> ELSE <<>>)
         \o SavedFor(Tail(h), g, m)

\* steps of the attach command and of startup
SaveStep(p) == cog = "ready" /\ pc[p] = "fetched" /\ pc'[p] # "fetched" /\ cog' = "ready"
AddedStep(p) == pc[p] = "editing" /\ pc'[p] = "idle" /\ cog' = "ready" /\ resp' = "added"
SetupStep == cog = "down" /\ cog' # "down"

\* a click can reach the button of role r on message m
Lookup(m, r) == Str(r) \in dispatch[m] /\ Str(r) \in CustomIds(components[m])

\* C1: an attach whose (guild, message, role) triple is already in the file fails
\* with an error and leaves the file and the registered views unchanged (stated
\* for the steps up to which no external call has failed, where only a duplicate
\* check could make the attach fail).
C1_DuplicateRejected ==
    [][\A p \in Procs :
         (SaveStep(p) /\ allOk'
             /\ Present(file, cmd[p].guild_id, cmd[p].message_id, cmd[p].role))
            => (file' = file /\ views' = views /\ pc'[p] = "idle" /\ resp' = "error")]_vars

\* C2: after a stop inside save_config, the next load_config reads the complete
\* file from before the save or the complete file after it.
C2_CrashSafeLoad ==
    (window.open /\ cog # "down") => loaded \in {window.pre, window.post}

\* C3: when an attach reports success, the view registered for every message
\* holds the bindings the file holds for that message, in the same order.
C3_ViewEqualsFile ==
    [][\A p \in Procs :
         AddedStep(p) =>
            \A m \in Msgs : ViewRoles(views'[m]) = FileRoles(Entries(file'.config), m)]_vars

\* C4: once the attach commands in flight have completed (all of them with
\* success), every binding that was reported added is among the buttons its
\* message displays and among the buttons of the view registered for it.
C4_NoLostUpdate ==
    (allOk /\ \A p \in Procs : pc[p] = "idle") =>
        \A a \in added :
            /\ Str(a.button.role_id) \in CustomIds(components[a.message_id])
            /\ Str(a.button.role_id) \in CustomIds(views[a.message_id])

\* C5: when the attach commands have pairwise distinct triples (and no external
\* call failed), every one succeeds and each binding is still found on its
\* message by a click.
C5_DistinctAllFound ==
    (distinct /\ allOk) =>
        /\ resp # "error"
        /\ \A a \in added : Lookup(a.message_id, a.button.role_id)

Opposite(d) == IF d = "Grant" THEN "Revoke" ELSE "Grant"

RECURSIVE Alternates(_, _)
Alternates(h, first) ==
    h = <<>> \/ (Head(h) = first /\ Alternates(Tail(h), Opposite(first)))

C7_RoundTrip ==
    [][(SetupStep /\ file.state = "json") =>
          \A a \in added :
             /\ cog' = "ready"
             /\ [message_id |-> a.message_id, item |-> a.item] \in restored']_vars

\* C8: startup with a file that does not parse constructs the cog with an
\* empty registry.
C8_CorruptStartsEmpty ==
    [][(SetupStep /\ file.state = "truncated") =>
          (cog' = "ready" /\ views' = NoViews /\ dispatch' = NoDispatch)]_vars

C10_SurvivesRestart ==
    [][SetupStep =>
          \A a \in added : Str(a.button.role_id) \in dispatch'[a.message_id]]_vars

\* the step in which save_config raises inside the attach command p
SaveFailedStep(p) == SaveStep(p) /\ pc'[p] = "idle"

\* C11: when save_config raises during an attach, the operator is sent the error
\* response and the view registered for that attach, new button included, stays
\* registered for the message.
C11_FailedSaveKeepsView ==
    [][\A p \in Procs :
         SaveFailedStep(p) =>
            /\ resp' = "error"
            /\ views'[cmd[p].message_id] # <<>>
            /\ LET view == views'[cmd[p].message_id] IN
               /\ view[Len(view)].role_id = cmd[p].role
               /\ view[Len(view)].emoji = cmd[p].emoji
               /\ [i \in 1..(Len(view) - 1) |-> Component(view[i])] = cmd[p].components
            /\ Str(cmd[p].role) \in dispatch'[cmd[p].message_id]]_vars

\* a view is registered although save_config raised and nothing was ever written
C11_Witness ==
    /\ cog = "ready" /\ resp = "error" /\ file.state = "absent"
    /\ \E m \in Msgs : views[m] # <<>>

\* the step in which save_config returns inside the attach command p
SavedStep(p) == SaveStep(p) /\ pc'[p] = "editing"

\* C12: when a later attach's save_config succeeds, the file then holds the
\* binding of every earlier attach whose save_config had raised.
C12_FailedSaveRetried ==
    [][\A p \in Procs :
         SavedStep(p) =>
            \A u \in unsaved :
               Present(file', u.guild_id, u.message_id, u.button.role_id)]_vars

\* the step in which the handler of click k ends
ClickEnds(k) == cpc[k] = "applying" /\ cpc'[k] = "idle" /\ cog' = "ready"

\* C13: the handler of a click calls add_roles or remove_roles once and no more;
\* when that call raises, the user is sent "Permission Error" or "Error" and
\* the roles of every user are as they were.
C13_OneAttemptNoRetry ==
    [][\A k \in Clicks :
         ClickEnds(k) =>
            /\ clk[k].tries = 1
            /\ (cresp' \in {"Role Removed", "Role Assigned"}
                  \/ (cresp' \in {"Permission Error", "Error"} /\ roles' = roles))
            /\ (hist' = hist => (cresp' \in {"Permission Error", "Error"} /\ roles' = roles))]_vars

\* a grant was refused: the user was told so and still lacks the role
C13_Witness ==
    /\ cresp = "Permission Error" /\ ~roleOk
    /\ \A u \in Users, r \in RoleIds : hist[u][r] = <<>>
    /\ roles = roles0 /\ clicks > 0

\* what identifies a binding on its message: role id and emoji
ButtonKeys(buttons) ==
    [i \in 1..Len(buttons) |-> [role_id |-> buttons[i].role_id, emoji |-> buttons[i].emoji]]
ComponentKeys(comps) ==
    [i \in 1..Len(comps) |->
        [role_id |-> IntOf(comps[i].custom_id), emoji |-> comps[i].emoji]]

\* the bindings saved for one message, in the order their attaches were accepted
RECURSIVE AcceptedFor(_, _)
AcceptedFor(h, m) ==
    IF h = <<>> THEN <<>>
    ELSE (IF Head(h).message_id = m
          THEN <<[role_id |-> Head(h).button.role_id, emoji |-> Head(h).button.emoji]>>
          ELSE <<>>) \o AcceptedFor(Tail(h), m)

\* s lists some of the elements of t, in the order t has them
RECURSIVE InOrderOf(_, _)
InOrderOf(s, t) ==
    \/ s = <<>>
    \/ /\ t # <<>>
       /\ IF Head(s) = Head(t) THEN InOrderOf(Tail(s), Tail(t)) ELSE InOrderOf(s, Tail(t))

Front(s) == SubSeq(s, 1, Len(s) - 1)

\* the buttons of a view are in the order acc; its last button may be one whose
\* save_config raised, which no order was recorded for
ViewInOrder(m, acc) ==
    \/ InOrderOf(ButtonKeys(views[m]), acc)
    \/ /\ views[m] # <<>>
       /\ \E u \in unsaved :
             /\ u.message_id = m
             /\ u.button.role_id = views[m][Len(views[m])].role_id
             /\ u.button.emoji = views[m][Len(views[m])].emoji
       /\ InOrderOf(ButtonKeys(Front(views[m])), acc)

OrderKept ==
    \A m \in Msgs :
        LET acc == AcceptedFor(persisted, m) IN
        /\ InOrderOf(ComponentKeys(components[m]), acc)
        /\ ViewInOrder(m, acc)
        /\ \A g \in Guilds : InOrderOf(ButtonKeys(Bindings(file, g, m)), acc)

\* C14: the bindings of a message appear in the order their attaches were
\* accepted in the file, in the displayed buttons and in the registered view,
\* and load_config registers them in the order the file has them.
C14_InsertionOrder ==
    /\ []OrderKept
    /\ [][(SetupStep /\ cog' = "ready") =>
             \A m \in Msgs :
                \/ views'[m] = <<>>
                \/ \E g \in Guilds :
                      ButtonKeys(views'[m]) = ButtonKeys(Bindings(file, g, m))]_vars

\* two attaches to one message, then a restart: file, message and reloaded view
\* each hold both bindings
C14_Witness ==
    /\ restarts = 1 /\ cog = "ready"
    /\ \E g \in Guilds, m \in Msgs :
          /\ Len(Bindings(file, g, m)) = 2
          /\ Len(components[m]) = 2
          /\ Len(views[m]) = 2
          /\ Bindings(file, g, m)[1].role_id # Bindings(file, g, m)[2].role_id

C16_ErrorLeavesNoTrace ==
    (/\ attaches = 1 /\ restarts = 0 /\ cog = "ready"
     /\ \A p \in Procs : pc[p] = "idle"
     /\ resp = "error")
        => (file = NoFile /\ views = NoViews /\ dispatch = NoDispatch)

====
